---- MODULE Spec2Model ----
(***************************************************************************)
(* A model of internal/wuid.go: the WUID generator.                        *)
(*                                                                         *)
(* A uint64 is kept at its full width as three limbs <<top, mid, low>>:    *)
(* top is bits 40..63 (24 bits), mid is bits 20..39, low is bits 0..19.    *)
(* The low 40 bits (mid, low) are the counter; top holds the epoch and,    *)
(* on a generator with a Section, the section in its 4 highest bits.       *)
(***************************************************************************)
EXTENDS Integers, Sequences, FiniteSets, TLC

(***************************************************************************)
(* uint64 arithmetic on limbs                                              *)
(***************************************************************************)
LimbBase == 2^20
TopBase == 2^24

U64(t, m, l) == <<t, m, l>>
Zero64 == U64(0, 0, 0)
One64 == U64(0, 0, 1)

\* a + b on uint64, wrapping at 2^64 as Go's unsigned addition does
Add64(a, b) ==
    LET l == a[3] + b[3]
        m == a[2] + b[2] + (l \div LimbBase)
        t == a[1] + b[1] + (m \div LimbBase)
    IN  U64(t % TopBase, m % LimbBase, l % LimbBase)

\* a < b and a <= b on uint64
Less64(a, b) ==
    \/ a[1] < b[1]
    \/ a[1] = b[1] /\ a[2] < b[2]
    \/ a[1] = b[1] /\ a[2] = b[2] /\ a[3] < b[3]
Leq64(a, b) == a = b \/ Less64(a, b)

\* a & b and a | b on one limb, bit by bit from the lowest
BitAndOf[a \in Nat, b \in Nat] ==
    IF a = 0 \/ b = 0 THEN 0
    ELSE (a % 2) * (b % 2) + 2 * BitAndOf[a \div 2, b \div 2]
BitAnd(a, b) == BitAndOf[a, b]

BitOrOf[a \in Nat, b \in Nat] ==
    IF a = 0 THEN b
    ELSE IF b = 0 THEN a
    ELSE (IF a % 2 = 1 \/ b % 2 = 1 THEN 1 ELSE 0) + 2 * BitOrOf[a \div 2, b \div 2]
BitOr(a, b) == BitOrOf[a, b]

And64(a, b) == U64(BitAnd(a[1], b[1]), BitAnd(a[2], b[2]), BitAnd(a[3], b[3]))
Or64(a, b) == U64(BitOr(a[1], b[1]), BitOr(a[2], b[2]), BitOr(a[3], b[3]))

\* h << 40 on uint64: the low 24 bits of h become bits 40..63
Shl40(h) == U64((h[2] % 16) * LimbBase + h[3], 0, 0)
\* Shl60 with a shift by 56: the 8 bits of s become bits 56..63
Shl56(s) == U64((s % 256) * 2^16, 0, 0)

\* uint64(s) << 60 for a uint8 s: its low 4 bits become bits 60..63
Shl60(s) == U64((s % 16) * LimbBase, 0, 0)

(***************************************************************************)
(* Constants of wuid.go                                                    *)
(***************************************************************************)
\* (1 << 40) * 8 / 10, by long division of the limbs <<8, 0, 0>> by 10
CriticalValue ==
    LET r1 == 8 % 10
        q2 == (r1 * LimbBase) \div 10
        r2 == (r1 * LimbBase) % 10
        q3 == (r2 * LimbBase) \div 10
    IN  U64(0, q2, q3)

\* RenewInterval with 35 bits set: 0x07FFFFFFFF
RenewInterval35 == U64(0, 2^15 - 1, LimbBase - 1)

\* 0x01FFFFFFFF
RenewInterval == U64(0, 2^13 - 1, LimbBase - 1)

\* 0xFFFFFFFFFF
Low40Mask == U64(0, LimbBase - 1, LimbBase - 1)
\* 0x0FFFFFFFFFFFFFFF
Low60Mask == U64(2^20 - 1, LimbBase - 1, LimbBase - 1)
\* 0xFFFFFF and 0x0FFFFF
MaxH24 == U64(0, 15, LimbBase - 1)
MaxH20 == U64(0, 0, LimbBase - 1)

(***************************************************************************)
(* The pure parts of wuid.go                                               *)
(***************************************************************************)
\* AddUint64 on the low 40 bits alone, bits 40..63 kept
AddUint64Low40(n, delta) ==
    LET v == Add64(n, delta)
    IN  U64(n[1], v[2], v[3])

\* atomic.AddUint64(&w.N, delta): the new value
AddUint64(n, delta) == Add64(n, delta)

\* RenewDue without the test against CriticalValue
RenewDueAnywhere(x) == And64(x, RenewInterval) = Zero64

\* x&0xFFFFFFFFFF >= CriticalValue && x&RenewInterval == 0
RenewDue(x) ==
    /\ Leq64(CriticalValue, And64(x, Low40Mask))
    /\ And64(x, RenewInterval) = Zero64

\* ResetValue without the mask that clears the 4 highest bits of n
ResetValueUnmasked(s, n) ==
    IF s = 0 THEN n
    ELSE Or64(n, Shl60(s))

\* ResetValue with the mask 0x0FFFFF0000000000 on a generator with a Section:
\* the low 40 bits of n are dropped
ResetValueDropsCounter(s, n) ==
    IF s = 0 THEN n
    ELSE Or64(And64(n, U64(2^20 - 1, 0, 0)), Shl60(s))

\* The value Reset(n) stores on a generator whose Section is s
ResetValue(s, n) ==
    IF s = 0 THEN n
    ELSE Or64(And64(n, Low60Mask), Shl60(s))

\* VerifyH24 with >= in the place of > in both range tests
VerifyH24Strict(s, h24) ==
    IF h24 = Zero64 THEN "ErrZero"
    ELSE IF s = 0
         THEN IF Leq64(MaxH24, h24) THEN "ErrExceed24" ELSE "nil"
         ELSE IF Leq64(MaxH20, h24) THEN "ErrExceed20" ELSE "nil"

\* VerifyH24 without the range tests
VerifyH24ZeroOnly(s, h24) == IF h24 = Zero64 THEN "ErrZero" ELSE "nil"

\* The error VerifyH24(h24) returns on a generator whose Section is s
VerifyH24(s, h24) ==
    IF h24 = Zero64 THEN "ErrZero"
    ELSE IF s = 0
         THEN IF Less64(MaxH24, h24) THEN "ErrExceed24" ELSE "nil"
         ELSE IF Less64(MaxH20, h24) THEN "ErrExceed20" ELSE "nil"

\* WithSectionPanics with > 16 in the place of >= 16
WithSectionPanicsLate(section) == section = 0 \/ section > 16

\* WithSection(section) panics unless section is in 1..15
WithSectionPanics(section) == section = 0 \/ section >= 16

(***************************************************************************)
(* Bounds of the model                                                     *)
(***************************************************************************)
NumCallers == 2
MaxCalls == 3
MaxPrior == 1
MaxAttempts == 2

Callers == 1..NumCallers
SetterId == NumCallers + 1
None == <<>>
Callbacks == {"cbA", "cbB"}

VARIABLES
    life,       \* "none": before NewWUID; "panicked": WithSection panicked; "built"
    Section,    \* w.Section
    N,          \* w.N
    Renew,      \* w.Renew: "nil" or a callback
    Logger,     \* w.Logger != nil
    mu,         \* the embedded sync.Mutex: 0 when free, else its holder
    pc, x, renew, tk,   \* per caller of Next: position, x, the renew local, call number
    attempts,   \* the renewal goroutines, in the order they were started
    coord,      \* the last epoch the external coordinator handed out
    spc,        \* position of the thread that replaces w.Renew
    issued,     \* history: the results of AddUint64, in the order of the increments
    ret,        \* history: ret[k] is what the call that made the k-th increment returned
    hist,       \* history: the values issued before the first state, an interval or None
    initial,    \* history: w.N in the first state
    lastCall,   \* history: the latest call of Reset or VerifyH24, as
                \* <<"Reset", n, value stored>> or <<"VerifyH24", h24, error>>
    ctorArg     \* history: the section given to WithSection, None without the option

vars == <<life, Section, N, Renew, Logger, mu, pc, x, renew, tk, attempts, coord,
          spc, issued, ret, hist, initial, lastCall, ctorArg>>

genVars == <<life, Section, Logger>>
callerVars == <<pc, x, renew, tk>>
histVars == <<hist, initial, ctorArg>>

(***************************************************************************)
(* The first states: a generator as NewWUID leaves it, or one on which an  *)
(* epoch e was installed by Reset(e<<40) and `off` calls of Next followed  *)
(* with every renewal attempt failed or still running.                     *)
(***************************************************************************)
Sections == {0, 5}

\* Distances from the installed value, around the places where Next changes
\* its behaviour: 2^33 is <<0, 2^13, 0>>, and k * 2^33 is a multiple of
\* RenewInterval + 1
Multiple(k) == U64(0, k * 2^13, 0)
Pred64(a) == Add64(a, U64(TopBase - 1, LimbBase - 1, LimbBase - 1))
Offsets ==
    { Zero64,
      Pred64(CriticalValue),            \* the next call reaches CriticalValue
      Pred64(Multiple(102)),            \* the last multiple below CriticalValue
      Pred64(Multiple(103)),            \* the first multiple above CriticalValue
      Pred64(Multiple(104)),
      Pred64(Multiple(105)),
      U64(0, LimbBase - 1, LimbBase - 2),            \* 2^40 - 2
      Add64(U64(1, 0, 0), Pred64(Multiple(103))) }   \* 2^40 + 103 * 2^33 - 1

\* The largest epoch VerifyH24 accepts
MaxEpoch(s) == IF s = 0 THEN MaxH24 ELSE MaxH20

\* The installed epoch is 1, or the largest one where the epoch field or the
\* coordinator runs out
Starts(s) ==
    {<<One64, off>> : off \in Offsets}
    \cup {<<MaxEpoch(s), off>> :
            off \in {Pred64(Multiple(103)), U64(0, LimbBase - 1, LimbBase - 2)}}

\* The renewal goroutines that may still be running: at most one for each
\* multiple of 2^33 from 103 * 2^33 on that the counter has passed.  They are
\* taken into the first state where the next call starts one more, or where
\* one of the next calls carries out of the low 40 bits.
Passed(off) == Cardinality({m \in 103..127 : Leq64(Multiple(m), off)})
PriorsAt(off) ==
    IF off[1] = 0 /\ (RenewDue(Add64(off, One64)) \/ off[2] = LimbBase - 1)
    THEN {k \in 0..MaxPrior : k <= Passed(off)}
    ELSE {0}

\* A goroutine that has not run yet: cb is the renew it captured; by is history,
\* the number of the call of Next that started it, 0 when it was started before
\* the first state
NewAttempt(cb, by) ==
    [cb |-> cb, by |-> by, pc |-> "spawned", h |-> Zero64, out |-> "none",
     err |-> "nil", log |-> <<>>, ord |-> 0]

InitCommon ==
    /\ life = "built"
    /\ Logger \in BOOLEAN
    /\ mu = 0
    /\ pc = [c \in Callers |-> "idle"]
    /\ x = [c \in Callers |-> Zero64]
    /\ renew = [c \in Callers |-> "nil"]
    /\ tk = [c \in Callers |-> 0]
    /\ spc = "idle"
    /\ issued = <<>>
    /\ ret = <<>>
    /\ lastCall = None
    /\ ctorArg = None

\* NewWUID(tag, logger, opts...): N is 0 and Renew is nil
InitFresh ==
    /\ InitCommon
    /\ Section \in Sections
    /\ N = Zero64
    /\ Renew = "nil"
    /\ attempts = <<>>
    /\ coord = Zero64
    /\ hist = None
    /\ initial = Zero64

InitRunning ==
    /\ InitCommon
    /\ Section \in Sections
    /\ Renew \in {"nil", "cbA"}
    /\ \E st \in Starts(Section) :
          LET e == st[1]
              off == st[2]
              base == ResetValue(Section, Shl40(e))
              n == Add64(base, off)
          IN  /\ N = n
              /\ initial = n
              /\ coord = e
              /\ hist = IF off = Zero64 THEN None ELSE <<Add64(base, One64), n>>
              /\ \E k \in PriorsAt(off) :
                    attempts = [i \in 1..k |-> NewAttempt(Renew, 0)]

Init == InitFresh \/ InitRunning

(***************************************************************************)
(* WUID.Next, one action per step of a caller                              *)
(***************************************************************************)
\* NextAdd with a load and a store in the place of the atomic add, the store
\* lost to a concurrent one
NextAddLost(c) ==
    /\ life = "built"
    /\ pc[c] = "idle"
    /\ Len(issued) < MaxCalls
    /\ LET v == AddUint64(N, One64)
       IN  /\ N' = IF Len(issued) = 1 THEN N ELSE v
           /\ x' = [x EXCEPT ![c] = v]
           /\ tk' = [tk EXCEPT ![c] = Len(issued) + 1]
           /\ issued' = Append(issued, v)
           /\ IF RenewDue(v)
              THEN /\ pc' = [pc EXCEPT ![c] = "lock"]
                   /\ ret' = Append(ret, None)
              ELSE /\ pc' = pc
                   /\ ret' = Append(ret, v)
    /\ UNCHANGED <<genVars, Renew, mu, renew, attempts, coord, spc, histVars,
                   lastCall>>

\* x := atomic.AddUint64(&w.N, 1); when the test of line 39 fails, return x
NextAdd(c) ==
    /\ life = "built"
    /\ pc[c] = "idle"
    /\ Len(issued) < MaxCalls
    /\ LET v == AddUint64(N, One64)
       IN  /\ N' = v
           /\ x' = [x EXCEPT ![c] = v]
           /\ tk' = [tk EXCEPT ![c] = Len(issued) + 1]
           /\ issued' = Append(issued, v)
           /\ IF RenewDue(v)
              THEN /\ pc' = [pc EXCEPT ![c] = "lock"]
                   /\ ret' = Append(ret, None)
              ELSE /\ pc' = pc
                   /\ ret' = Append(ret, v)
    /\ UNCHANGED <<genVars, Renew, mu, renew, attempts, coord, spc, histVars,
                   lastCall>>

\* w.Lock(): waits until the mutex is free
NextLock(c) ==
    /\ pc[c] = "lock"
    /\ mu = 0
    /\ mu' = c
    /\ pc' = [pc EXCEPT ![c] = "read"]
    /\ UNCHANGED <<genVars, N, Renew, x, renew, tk, attempts, coord, spc, issued,
                   ret, histVars, lastCall>>

\* renew := w.Renew
NextRead(c) ==
    /\ pc[c] = "read"
    /\ renew' = [renew EXCEPT ![c] = Renew]
    /\ pc' = [pc EXCEPT ![c] = "unlock"]
    /\ UNCHANGED <<genVars, N, Renew, mu, x, tk, attempts, coord, spc, issued,
                   ret, histVars, lastCall>>

\* NextUnlock without w.Unlock(): the mutex stays with the caller
NextUnlockKeeps(c) ==
    /\ pc[c] = "unlock"
    /\ pc' = [pc EXCEPT ![c] = "go"]
    /\ UNCHANGED <<genVars, N, Renew, mu, x, renew, tk, attempts, coord, spc,
                   issued, ret, histVars, lastCall>>

\* w.Unlock()
NextUnlock(c) ==
    /\ pc[c] = "unlock"
    /\ mu' = 0
    /\ pc' = [pc EXCEPT ![c] = "go"]
    /\ UNCHANGED <<genVars, N, Renew, x, renew, tk, attempts, coord, spc, issued,
                   ret, histVars, lastCall>>

\* NextGo with "return w.N" in the place of "return x"
NextGoRereads(c) ==
    /\ pc[c] = "go"
    /\ attempts' = Append(attempts, NewAttempt(renew[c], tk[c]))
    /\ ret' = [ret EXCEPT ![tk[c]] = N]
    /\ pc' = [pc EXCEPT ![c] = "idle"]
    /\ UNCHANGED <<genVars, N, Renew, mu, x, renew, tk, coord, spc, issued,
                   histVars, lastCall>>

\* NextGo with a goroutine that calls w.Renew() in the place of renew()
NextGoCallsField(c) ==
    /\ pc[c] = "go"
    /\ attempts' = Append(attempts, NewAttempt(Renew, tk[c]))
    /\ ret' = [ret EXCEPT ![tk[c]] = x[c]]
    /\ pc' = [pc EXCEPT ![c] = "idle"]
    /\ UNCHANGED <<genVars, N, Renew, mu, x, renew, tk, coord, spc, issued,
                   histVars, lastCall>>

\* NextGo waiting for the goroutine it started before it returns
NextGoJoins(c) ==
    /\ pc[c] = "go"
    /\ LET mine == {i \in 1..Len(attempts) : attempts[i].by = tk[c]}
       IN  IF mine = {}
           THEN /\ attempts' = Append(attempts, NewAttempt(renew[c], tk[c]))
                /\ UNCHANGED <<ret, pc>>
           ELSE /\ \A i \in mine : attempts[i].pc = "done"
                /\ ret' = [ret EXCEPT ![tk[c]] = x[c]]
                /\ pc' = [pc EXCEPT ![c] = "idle"]
                /\ UNCHANGED attempts
    /\ UNCHANGED <<genVars, N, Renew, mu, x, renew, tk, coord, spc, issued,
                   histVars, lastCall>>

\* go func() {...}(): the goroutine is started and not waited for; return x
NextGo(c) ==
    /\ pc[c] = "go"
    /\ attempts' = Append(attempts, NewAttempt(renew[c], tk[c]))
    /\ ret' = [ret EXCEPT ![tk[c]] = x[c]]
    /\ pc' = [pc EXCEPT ![c] = "idle"]
    /\ UNCHANGED <<genVars, N, Renew, mu, x, renew, tk, coord, spc, issued,
                   histVars, lastCall>>

\* The test of line 39 looks at the low 40 bits of x alone: of the 128
\* multiples of 2^33 below 2^40, the first at or above CriticalValue is the
\* first on which it holds, and it holds on all from there
FirstDue ==
    CriticalValue[2] \div 2^13
        + (IF CriticalValue[2] % 2^13 = 0 /\ CriticalValue[3] = 0 THEN 0 ELSE 1)

\* The least multiple of 2^33 above v: every x above v and below it has
\* x & RenewInterval not 0
NextMultiple(v) == Add64(U64(v[1], v[2] - (v[2] % 2^13), 0), Multiple(1))

\* The last value before the next one on which the test of line 39 holds:
\* the calls run from v to the next multiple of 2^33, the w-th of its range of
\* 2^40, and when that is below CriticalValue, over the multiples before the
\* FirstDue-th
RunEnd(v) ==
    LET nm == NextMultiple(v)
        w == (nm[2] \div 2^13) % 128
    IN  Pred64(IF w >= FirstDue THEN nm ELSE Add64(nm, Multiple(FirstDue - w)))

\* A run of calls of Next on each of which the test of line 39 fails, so that
\* each returns its x, up to the last value before the next one on which the
\* test holds.  The run and the calls recorded so far pass into hist; no call
\* is in progress, and the locals of the callers are as before their first
\* call.
NextRun ==
    /\ life = "built"
    /\ \A c \in Callers : pc[c] = "idle"
    /\ Len(attempts) < MaxAttempts
    /\ N # RunEnd(N)
    /\ N' = RunEnd(N)
    /\ RenewDue(AddUint64(N', One64))
    /\ hist' = <<IF hist # None THEN hist[1] ELSE AddUint64(initial, One64), N'>>
    /\ initial' = N'
    /\ issued' = <<>>
    /\ ret' = <<>>
    /\ tk' = [c \in Callers |-> 0]
    /\ x' = [c \in Callers |-> Zero64]
    /\ renew' = [c \in Callers |-> "nil"]
    /\ attempts' = [i \in 1..Len(attempts) |-> [attempts[i] EXCEPT !.by = 0]]
    /\ UNCHANGED <<genVars, Renew, mu, pc, coord, spc, lastCall, ctorArg>>

(***************************************************************************)
(* WUID.Reset                                                              *)
(***************************************************************************)
\* Reset storing n as it is, whatever the Section
ResetVerbatim(n) ==
    /\ N' = n
    /\ lastCall' = <<"Reset", n, N'>>

\* Reset that stores only a value above the one it finds
ResetKeepsHigher(n) ==
    /\ N' = IF Less64(N, ResetValue(Section, n)) THEN ResetValue(Section, n) ELSE N
    /\ lastCall' = <<"Reset", n, N'>>

\* atomic.StoreUint64(&w.N, ...)
Reset(n) ==
    /\ N' = ResetValue(Section, n)
    /\ lastCall' = <<"Reset", n, N'>>

(***************************************************************************)
(* The goroutine Next starts (lines 44..60).  An attempt ends "done" with  *)
(* out: how renew() ended, err: the error it returned, log: the calls the   *)
(* goroutine made to the Logger, in their order.                           *)
(***************************************************************************)
Attempts == 1..Len(attempts)

\* history: attempts[i].ord is the rank of attempt i among those that called
\* Reset, 0 while it has not
Installs == Cardinality({i \in Attempts : attempts[i].ord > 0})

\* Deferred with the test r != nil left out: Warn whenever there is a Logger
DeferredAlways(a, panicked) ==
    [a EXCEPT !.pc = "done",
              !.log = IF Logger THEN Append(@, "warn") ELSE @]

\* The deferred function (lines 45..49), run when the goroutine ends:
\* recover() is not nil after a panic, and then Warn if there is a Logger
Deferred(a, panicked) ==
    [a EXCEPT !.pc = "done",
              !.log = IF panicked /\ Logger THEN Append(@, "warn") ELSE @]

\* renew() panicked: the goroutine unwinds into the deferred function
Recovered(a) == Deferred([a EXCEPT !.out = "panic"], TRUE)

\* renew() returned err: return without a Logger, else Warn or Info; then the
\* deferred function
Returned(a, err) ==
    Deferred([a EXCEPT !.out = "returned", !.err = err,
                       !.log = IF ~Logger THEN @
                               ELSE IF err # "nil" THEN Append(@, "warn")
                               ELSE Append(@, "info")],
             FALSE)

\* GoCallNil without the deferred recover(): the panic ends the process
GoCallNilCrash(i) ==
    /\ attempts[i].pc = "spawned"
    /\ attempts[i].cb = "nil"
    /\ attempts' = [attempts EXCEPT ![i] = Recovered(@)]
    /\ life' = "crashed"
    /\ UNCHANGED <<Section, Logger, N, Renew, mu, callerVars, coord, spc, issued,
                   ret, histVars, lastCall>>

\* err := renew() with renew == nil: the call panics
GoCallNil(i) ==
    /\ attempts[i].pc = "spawned"
    /\ attempts[i].cb = "nil"
    /\ attempts' = [attempts EXCEPT ![i] = Recovered(@)]
    /\ UNCHANGED <<genVars, N, Renew, mu, callerVars, coord, spc, issued, ret,
                   histVars, lastCall>>

(***************************************************************************)
(* The renewal callback, as its contract describes it: obtain an epoch     *)
(* from the coordinator, VerifyH24 it, Reset(epoch<<40); on any failure    *)
(* return an error and install nothing.  It may also panic, and it may     *)
(* stay at any of its steps for ever.                                      *)
(***************************************************************************)
\* The coordinator hands out the next epoch, and w.VerifyH24(h24) checks it
CbFetch(i) ==
    /\ attempts[i].pc = "spawned"
    /\ attempts[i].cb # "nil"
    /\ coord' = Add64(coord, One64)
    /\ LET e == VerifyH24(Section, coord')
       IN  /\ lastCall' = <<"VerifyH24", coord', e>>
           /\ attempts' = [attempts EXCEPT ![i] =
                             IF e = "nil"
                             THEN [@ EXCEPT !.pc = "verified", !.h = coord']
                             ELSE Returned([@ EXCEPT !.h = coord'], e)]
    /\ UNCHANGED <<genVars, N, Renew, mu, callerVars, spc, issued, ret,
                   histVars>>

\* The coordinator cannot be reached: the callback returns an error
CbFail(i) ==
    /\ attempts[i].pc = "spawned"
    /\ attempts[i].cb # "nil"
    /\ attempts' = [attempts EXCEPT ![i] = Returned(@, "ErrFetch")]
    /\ UNCHANGED <<genVars, N, Renew, mu, callerVars, coord, spc, issued, ret,
                   histVars, lastCall>>

\* The callback panics
CbPanic(i) ==
    /\ attempts[i].pc = "spawned"
    /\ attempts[i].cb # "nil"
    /\ attempts' = [attempts EXCEPT ![i] = Recovered(@)]
    /\ UNCHANGED <<genVars, N, Renew, mu, callerVars, coord, spc, issued, ret,
                   histVars, lastCall>>

\* w.Reset(h24 << 40), and the callback returns nil
CbReset(i) ==
    /\ attempts[i].pc = "verified"
    /\ Reset(Shl40(attempts[i].h))
    /\ attempts' = [attempts EXCEPT ![i] = Returned([@ EXCEPT !.ord = Installs + 1], "nil")]
    /\ UNCHANGED <<genVars, Renew, mu, callerVars, coord, spc, issued, ret,
                   histVars>>

(***************************************************************************)
(* A thread that replaces w.Renew under the mutex                          *)
(***************************************************************************)
SetLock ==
    /\ life = "built"
    /\ spc = "idle"
    /\ mu = 0
    /\ mu' = SetterId
    /\ spc' = "locked"
    /\ UNCHANGED <<genVars, N, Renew, callerVars, attempts, coord, issued, ret,
                   histVars, lastCall>>

SetRenew(cb) ==
    /\ spc = "locked"
    /\ cb # Renew
    /\ Renew' = cb
    /\ spc' = "written"
    /\ UNCHANGED <<genVars, N, mu, callerVars, attempts, coord, issued, ret,
                   histVars, lastCall>>

SetUnlock ==
    /\ spc = "written"
    /\ mu' = 0
    /\ spc' = "idle"
    /\ UNCHANGED <<genVars, N, Renew, callerVars, attempts, coord, issued, ret,
                   histVars, lastCall>>

(***************************************************************************)
(* Construction, and calls of Reset and VerifyH24 from outside             *)
(***************************************************************************)
\* The uint8 arguments WithSection is tried with
SectionInputs == 0..16 \cup {255}

\* WithSection(section), evaluated before NewWUID is entered
WithSection(section) ==
    /\ life = "none"
    /\ ctorArg' = <<section>>
    /\ life' = IF WithSectionPanics(section) THEN "panicked" ELSE "option"
    /\ UNCHANGED <<Section, Logger, N, Renew, mu, callerVars, attempts, coord,
                   spc, issued, ret, hist, initial, lastCall>>

\* NewWUID(tag, logger, opts...), with the option of WithSection or with none
NewWUID ==
    /\ life \in {"none", "option"}
    /\ life' = "built"
    /\ Section' = IF life = "option" THEN ctorArg[1] ELSE 0
    /\ Logger' \in BOOLEAN
    /\ N' = Zero64
    /\ Renew' = "nil"
    /\ UNCHANGED <<mu, callerVars, attempts, coord, spc, issued, ret, histVars,
                   lastCall>>

\* The arguments Reset is called with: every value of the 4 highest bits that
\* matters, counters next to the places where Next changes its behaviour
ResetInputs ==
    { Zero64,
      Shl40(One64),
      Shl40(MaxH20),
      Add64(Shl40(One64), Pred64(Multiple(103))),
      Add64(Shl40(MaxH20), U64(0, LimbBase - 1, LimbBase - 2)),
      Add64(Shl40(MaxH24), U64(0, LimbBase - 1, LimbBase - 1)),
      U64(10 * LimbBase + 7, 3, 9),
      U64(5 * LimbBase, 0, 0) }

\* w.Reset(n), called before the first call of Next
ApiReset(n) ==
    /\ life = "built"
    /\ issued = <<>>
    /\ Reset(n)
    /\ UNCHANGED <<genVars, Renew, mu, callerVars, attempts, coord, spc, issued,
                   ret, histVars>>

\* The arguments VerifyH24 is called with: 0, 1, both limits and their
\* successors, 2^40 and 2^64 - 1
VerifyInputs ==
    { Zero64, One64, MaxH20, Add64(MaxH20, One64), MaxH24, Add64(MaxH24, One64),
      U64(1, 0, 0), U64(TopBase - 1, LimbBase - 1, LimbBase - 1) }

\* w.VerifyH24(h24)
ApiVerify(h24) ==
    /\ life = "built"
    /\ lastCall' = <<"VerifyH24", h24, VerifyH24(Section, h24)>>
    /\ UNCHANGED <<genVars, N, Renew, mu, callerVars, attempts, coord, spc,
                   issued, ret, histVars>>

(***************************************************************************)
(* Specifications                                                          *)
(***************************************************************************)
\* Callers of Next and the renewals they start
Next ==
    \/ \E c \in Callers : NextAdd(c)
    \/ \E c \in Callers : NextLock(c)
    \/ \E c \in Callers : NextRead(c)
    \/ \E c \in Callers : NextUnlock(c)
    \/ \E c \in Callers : NextGo(c)
    \/ \E i \in Attempts : GoCallNil(i)
    \/ \E i \in Attempts : CbFetch(i)
    \/ \E i \in Attempts : CbFail(i)
    \/ \E i \in Attempts : CbPanic(i)
    \/ \E i \in Attempts : CbReset(i)

Spec == Init /\ [][Next]_vars

\* The same with a thread that replaces w.Renew, from the first states in
\* which the next call of Next finds a renewal due and none is running
InitSet ==
    /\ InitRunning
    /\ RenewDue(AddUint64(N, One64))
    /\ attempts = <<>>
    /\ Section = 0
    /\ Logger

NextSet ==
    \/ Next
    \/ SetLock
    \/ \E cb \in Callbacks : SetRenew(cb)
    \/ SetUnlock

SpecSet == InitSet /\ [][NextSet]_vars

\* Callers that keep calling Next while every renewal fails or hangs, from the
\* first states in which the counter has crossed CriticalValue, of a generator
\* with a callback and a Logger and without a Section.  The callers are
\* scheduled and the mutex is handed on, so a step of a caller that stays
\* possible is taken; nothing makes a renewal goroutine move.
InitLive ==
    /\ InitRunning
    /\ Leq64(CriticalValue, And64(AddUint64(N, One64), Low40Mask))
    /\ Section = 0
    /\ Logger
    /\ Renew # "nil"

NextLive ==
    \/ \E c \in Callers : NextAdd(c)
    \/ NextRun
    \/ \E c \in Callers : NextLock(c)
    \/ \E c \in Callers : NextRead(c)
    \/ \E c \in Callers : NextUnlock(c)
    \/ \E c \in Callers : NextGo(c)
    \/ \E i \in Attempts : CbFail(i)
    \/ \E i \in Attempts : CbPanic(i)

SpecLive ==
    /\ InitLive
    /\ [][NextLive]_vars
    /\ WF_vars((\E c \in Callers : NextAdd(c)) \/ NextRun)
    /\ \A c \in Callers :
          WF_vars(NextLock(c) \/ NextRead(c) \/ NextUnlock(c) \/ NextGo(c))

\* Construction, then calls of Next, Reset and VerifyH24 on a generator whose
\* Renew is never set
InitAPI ==
    /\ life = "none"
    /\ Section = 0
    /\ Logger = FALSE
    /\ N = Zero64
    /\ Renew = "nil"
    /\ mu = 0
    /\ pc = [c \in Callers |-> "idle"]
    /\ x = [c \in Callers |-> Zero64]
    /\ renew = [c \in Callers |-> "nil"]
    /\ tk = [c \in Callers |-> 0]
    /\ attempts = <<>>
    /\ coord = Zero64
    /\ spc = "idle"
    /\ issued = <<>>
    /\ ret = <<>>
    /\ hist = None
    /\ initial = Zero64
    /\ lastCall = None
    /\ ctorArg = None

NextAPI ==
    \/ \E section \in SectionInputs : WithSection(section)
    \/ NewWUID
    \/ \E n \in ResetInputs : ApiReset(n)
    \/ \E h24 \in VerifyInputs : ApiVerify(h24)
    \/ \E c \in Callers : NextAdd(c)
    \/ \E c \in Callers : NextLock(c)
    \/ \E c \in Callers : NextRead(c)
    \/ \E c \in Callers : NextUnlock(c)
    \/ \E c \in Callers : NextGo(c)
    \/ \E i \in Attempts : GoCallNil(i)

SpecAPI == InitAPI /\ [][NextAPI]_vars

(***************************************************************************)
(* Vocabulary of the properties, written without the operators above       *)
(***************************************************************************)
\* b = a + 1 on uint64
IsSucc(a, b) ==
    IF a[3] < 1048575 THEN b = <<a[1], a[2], a[3] + 1>>
    ELSE IF a[2] < 1048575 THEN b = <<a[1], a[2] + 1, 0>>
    ELSE b = <<(a[1] + 1) % 16777216, 0, 0>>

\* The 4 highest bits, and the epoch field: bits 40..63 without a Section,
\* bits 40..59 with one
Top4(v) == v[1] \div 1048576
EpochField(v) == IF Section = 0 THEN v[1] ELSE v[1] % 1048576

Quiet == \A c \in Callers : pc[c] = "idle"
Returned64 == {k \in 1..Len(ret) : ret[k] # None}

\* No renewal has called Reset since the first state
NoReset == \A i \in Attempts : attempts[i].ord = 0

\* The values issued since the first state follow one another from there
Gapless ==
    \A k \in 1..Len(issued) :
        IsSucc(IF k = 1 THEN initial ELSE issued[k - 1], issued[k])

\* C1: N calls of Next by concurrent callers, with no Reset among them, return
\* exactly initial+1 .. initial+N: each call returns the result of its own
\* increment, the increments follow one another from the starting value, and
\* once every caller is back every increment has been returned.
C1_ExactRange ==
    NoReset =>
        /\ Gapless
        /\ \A k \in Returned64 : ret[k] = issued[k]
        /\ Quiet => Returned64 = 1..Len(issued)

\* Both callers have made calls, and all the calls allowed have returned
C1_Witness ==
    /\ NoReset
    /\ Quiet
    /\ Len(issued) = MaxCalls
    /\ \A c \in Callers : tk[c] > 0
    /\ \E k \in Returned64 : \E i \in Attempts : attempts[i].by = k

(***************************************************************************)
(* Uniqueness and order across renewals                                    *)
(***************************************************************************)
\* The epoch a uint64 h24 stands for, as a number
EpochOf(h) == h[2] * 1048576 + h[3]

\* The epoch installed before the first state, 0 on a generator never Reset
InstalledAtStart ==
    IF hist = None THEN EpochField(initial) ELSE EpochField(hist[1])

\* Every Reset installed an epoch above all the epochs installed before it
Ascending ==
    /\ \A i \in Attempts :
          attempts[i].ord > 0 => EpochOf(attempts[i].h) > InstalledAtStart
    /\ \A i, j \in Attempts :
          (attempts[i].ord > 0 /\ attempts[i].ord < attempts[j].ord)
              => EpochOf(attempts[i].h) < EpochOf(attempts[j].h)

\* Some call of Next carried out of the low 40 bits, before the first state or
\* since
Carried ==
    \/ hist # None /\ hist[1][1] # hist[2][1]
    \/ \E k \in 1..Len(issued) : issued[k][2] = 0 /\ issued[k][3] = 0

InHist(v) == hist # None /\ Leq64(hist[1], v) /\ Leq64(v, hist[2])

\* No value was returned twice, before the first state or since
Distinct ==
    /\ \A j, k \in Returned64 : j # k => ret[j] # ret[k]
    /\ \A k \in Returned64 : ~InHist(ret[k])

\* C2 as stated: with every Reset installing an epoch above all epochs
\* installed before, no two calls of Next return the same value, also when
\* the low 40 bits ran past 2^40 before the renewal succeeded.
C2_Original == Ascending => Distinct

\* C2: with every Reset installing an epoch above all epochs installed
\* before, and as long as no call of Next has carried out of the low 40 bits,
\* no two calls of Next return the same value.
C2_Unique == (Ascending /\ ~Carried) => Distinct

\* A renewal installed a new epoch and values were returned under both epochs
C2_Witness ==
    /\ Ascending
    /\ ~Carried
    /\ Installs > 0
    /\ \E j, k \in Returned64 : EpochField(ret[j]) # EpochField(ret[k])
    /\ \E i \in Attempts : attempts[i].pc = "done" /\ attempts[i].err # "nil"

\* Each value issued is above every value issued before it
Monotonic ==
    /\ \A j, k \in 1..Len(issued) : j < k => Less64(issued[j], issued[k])
    /\ \A k \in 1..Len(issued) : hist # None => Less64(hist[2], issued[k])

\* C3 as stated: the coordinator hands strictly increasing epochs to the
\* attempts, each installs its epoch by Reset, and every call of Next returns
\* more than every call whose increment came earlier.
C3_Original == Monotonic

\* C3: when moreover every Reset installs an epoch above all epochs installed
\* before, and as long as no call of Next has carried out of the low 40 bits,
\* every call of Next returns more than every call whose increment came
\* earlier.
C3_Monotonic == (Ascending /\ ~Carried) => Monotonic

\* Values were issued before and after a renewal installed its epoch
C3_Witness ==
    /\ Ascending
    /\ ~Carried
    /\ Installs > 0
    /\ \E j, k \in 1..Len(issued) :
          j < k /\ EpochField(issued[j]) < EpochField(issued[k])

(***************************************************************************)
(* When a renewal is started                                               *)
(***************************************************************************)
\* (x & 0xFFFFFFFFFF) >= floor(0.8 * 2^40) = 879609302220 = 838860 * 2^20 + 838860
\* and (x & 0x01FFFFFFFF) = 0: the low 33 bits of x are 0
DueByClaim(v) ==
    /\ v[2] > 838860 \/ (v[2] = 838860 /\ v[3] >= 838860)
    /\ v[3] = 0
    /\ v[2] % 8192 = 0

StartedBy(k) == {i \in Attempts : attempts[i].by = k}

\* C4: a call of Next that returned x has started the renewal goroutine once
\* when x is at or above CRITICAL_VALUE in its low 40 bits and x & RENEW_MASK
\* is 0, and not at all otherwise; a call that has not returned yet has started
\* none; after an install with counter 0 the first such x is the one at
\* distance 103 * 2^33.
C4_DispatchOnce ==
    /\ \A k \in 1..Len(issued) :
          Cardinality(StartedBy(k)) =
              IF k \in Returned64 /\ DueByClaim(issued[k]) THEN 1 ELSE 0
    /\ \A k \in 1..Len(issued) : RenewDue(issued[k]) = DueByClaim(issued[k])
    /\ issued = <<>> =>
          \A m \in 0..127 :
              RenewDue(Add64(ResetValue(Section, Shl40(One64)), Multiple(m)))
                  = (m >= 103)

\* A call returned the first value on which a renewal is due and started one
\* goroutine, and another call returned the next value and started none
C4_Witness ==
    \E k \in Returned64 :
        /\ DueByClaim(ret[k])
        /\ ret[k][2] = 103 * 8192
        /\ Cardinality(StartedBy(k)) = 1
        /\ k + 1 \in Returned64
        /\ StartedBy(k + 1) = {}

(***************************************************************************)
(* Failed renewals                                                         *)
(***************************************************************************)
Failed(a) == a.pc = "done" /\ (a.out = "panic" \/ a.err # "nil")

\* C5: a step in which a renewal attempt fails (renew returns an error,
\* panics, or is nil) changes neither the value nor anything a caller of Next
\* sees, and the generator stays in use; with failed attempts and no Reset,
\* every call of Next returns the value before it plus 1.
C5_FailureIsolated ==
    /\ [][\A i \in Attempts :
            (~Failed(attempts[i]) /\ Failed(attempts'[i]))
                => /\ N' = N
                   /\ life' = "built"
                   /\ <<pc, x, issued, ret>>' = <<pc, x, issued, ret>>]_vars
    /\ []((NoReset /\ \E i \in Attempts : Failed(attempts[i]))
            => Gapless /\ \A k \in Returned64 : ret[k] = issued[k])

\* An attempt started by a call of Next failed, by a panic, and a later call
\* returned
C5_Witness ==
    /\ NoReset
    /\ \E i \in Attempts :
          /\ Failed(attempts[i])
          /\ attempts[i].out = "panic"
          /\ attempts[i].by > 0
          /\ attempts[i].by + 1 \in Returned64

(***************************************************************************)
(* The mutex                                                               *)
(***************************************************************************)
Waiting(c) == pc[c] = "lock" /\ mu # 0

\* C6 as stated: no call of Next ever waits for the mutex, also not one on
\* which a renewal is due while another thread holds the mutex.
C6_Original == \A c \in Callers : ~Waiting(c)

\* C6: a call of Next on which no renewal is due returns with its atomic add
\* and never comes to the mutex; only a call on which a renewal is due takes
\* the mutex, to read Renew, and it holds the mutex while it reads.
C6_LockOnlyWhenDue ==
    /\ \A c \in Callers :
          /\ pc[c] # "idle" => DueByClaim(x[c])
          /\ pc[c] \in {"read", "unlock"} => mu = c
    /\ \A k \in 1..Len(issued) : ~DueByClaim(issued[k]) => k \in Returned64
    /\ mu \in Callers => pc[mu] \in {"read", "unlock"}

\* A call on which a renewal is due waits while the thread that replaces Renew
\* holds the mutex, and a call on which none is due has returned meanwhile
C6_Witness ==
    /\ mu = SetterId
    /\ \E c \in Callers : Waiting(c)
    /\ \E k \in Returned64 : ~DueByClaim(ret[k])

(***************************************************************************)
(* VerifyH24, Reset and WithSection                                        *)
(***************************************************************************)
IsVerify == lastCall # None /\ lastCall[1] = "VerifyH24"
IsReset == lastCall # None /\ lastCall[1] = "Reset"

\* h > 0xFFFFFF and h > 0x0FFFFF on the limbs
Above24(h) == h[1] > 0 \/ h[2] > 15
Above20(h) == h[1] > 0 \/ h[2] > 0

\* C7: VerifyH24(h) returns an error exactly when h = 0, or h > 0xFFFFFF
\* without a Section, or h > 0x0FFFFF with a Section in 1..15; the call ends
\* with a result and changes nothing of the generator.
C7_VerifyH24 ==
    /\ [](IsVerify =>
            LET h == lastCall[2]
            IN  (lastCall[3] # "nil") <=>
                    \/ h = <<0, 0, 0>>
                    \/ Section = 0 /\ Above24(h)
                    \/ Section \in 1..15 /\ Above20(h))
    /\ [][lastCall' # lastCall /\ lastCall'[1] = "VerifyH24"
            => <<life, Section, N, Renew, Logger, mu>>' =
               <<life, Section, N, Renew, Logger, mu>>]_vars

\* Both limits were accepted and their successors refused, with a Section for
\* 0x0FFFFF and 0x100000
C7_Witness ==
    /\ IsVerify
    /\ Section \in 1..15
    /\ lastCall[2] = <<0, 1, 0>>
    /\ lastCall[3] = "ErrExceed20"

\* C8: Reset(n) stores n as it is on a generator without a Section; with a
\* Section s in 1..15 the value stored has s in its 4 highest bits and the low
\* 60 bits of n below them.
C8_Reset ==
    /\ [](IsReset =>
            LET n == lastCall[2]
                v == lastCall[3]
            IN  IF Section = 0 THEN v = n
                ELSE /\ Top4(v) = Section
                     /\ v[1] % 1048576 = n[1] % 1048576
                     /\ v[2] = n[2]
                     /\ v[3] = n[3])
    /\ [][lastCall' # lastCall /\ lastCall'[1] = "Reset" => N' = lastCall'[3]]_vars

\* Reset was called with 4 highest bits other than the Section, and with low
\* bits other than 0
C8_Witness ==
    /\ IsReset
    /\ Section = 5
    /\ Top4(lastCall[2]) = 10
    /\ lastCall[2][3] = 9
    /\ N = lastCall[3]

\* C9: WithSection(0) and WithSection(s) with s >= 16 panic, with no generator
\* built and no value issued; for s in 1..15 the generator is built with
\* Section = s.
C9_WithSection ==
    /\ ctorArg # None =>
          /\ life = "panicked" <=> ctorArg[1] \notin 1..15
          /\ life = "built" => Section = ctorArg[1]
    /\ life # "built" => N = <<0, 0, 0>> /\ issued = <<>> /\ lastCall = None

\* WithSection(16) has panicked
C9_Witness == ctorArg = <<16>> /\ life = "panicked"

(***************************************************************************)
(* The epoch field                                                         *)
(***************************************************************************)
EpochNonZero ==
    /\ EpochField(N) # 0
    /\ \A k \in 1..Len(issued) : EpochField(issued[k]) # 0

\* C10 as stated: from construction on, the epoch field of the value is not
\* 0, and Next returns no value whose epoch field is 0.
C10_Original == EpochNonZero

\* An epoch that VerifyH24 accepted has been installed
Installed == initial # <<0, 0, 0>> \/ Installs > 0

\* C10: once an epoch that VerifyH24 accepted has been installed, and as long
\* as no call of Next has carried out of the low 40 bits, the epoch field of
\* the value is not 0, and Next returns no value whose epoch field is 0.
C10_EpochNonZero == (Installed /\ ~Carried) => EpochNonZero

\* A renewal installed its epoch, and Next returned a value under it
C10_Witness ==
    /\ ~Carried
    /\ \E i \in Attempts : attempts[i].ord > 0 /\ EpochField(Shl40(attempts[i].h)) = EpochField(N)
    /\ \E k \in Returned64 : ret[k] = N

(***************************************************************************)
(* The layout of the value                                                 *)
(***************************************************************************)
\* n is e << 40 for an epoch e that VerifyH24 accepts on a generator with a
\* Section: 0 < e <= 0x0FFFFF
IsEpochShifted(n) == n[1] \in 1..1048575 /\ n[2] = 0 /\ n[3] = 0

\* C11 as stated: after Reset(e<<40) with a validated epoch e on a generator
\* with Section s, the epoch is in the highest 20 bits (44..63), s in the 4
\* bits below it (40..43), right above the 40 bits of the counter.
C11_Original ==
    (IsReset /\ Section \in 1..15 /\ IsEpochShifted(lastCall[2]))
        => lastCall[3] = <<lastCall[2][1] * 16 + Section, 0, 0>>

\* C11: after Reset(e<<40) with a validated epoch e on a generator with
\* Section s, s is in the 4 highest bits (60..63), the epoch in the 20 bits
\* below it (40..59), right above the 40 bits of the counter, which are 0; and
\* this is the value of the generator until Next is called.
C11_Layout ==
    (IsReset /\ Section \in 1..15 /\ IsEpochShifted(lastCall[2]))
        => /\ lastCall[3] = <<Section * 1048576 + lastCall[2][1], 0, 0>>
           /\ issued = <<>> => N = lastCall[3]

\* Reset(0x0FFFFF << 40) was called on a generator with Section 15
C11_Witness ==
    /\ IsReset
    /\ Section = 15
    /\ lastCall[2] = <<1048575, 0, 0>>
    /\ N = <<16777215, 0, 0>>

(***************************************************************************)
(* What changes bits 40..63                                                *)
(***************************************************************************)
\* C12 as stated: with no Reset, every value Next issues has in its bits
\* 40..63 what the value had there at the start, also past the call on which
\* the low 40 bits go from 2^40-1 to 0.
C12_Original ==
    NoReset => \A k \in 1..Len(issued) : issued[k][1] = initial[1]

\* Bits 40..63 after a call of Next on the value a: those of a, plus 1 modulo
\* 2^24 when the low 40 bits of a are all 1
HighBitsAfter(a) ==
    IF a[2] = 1048575 /\ a[3] = 1048575 THEN (a[1] + 1) % 16777216 ELSE a[1]

\* C12: a call of Next leaves bits 40..63 of the value unchanged unless the low
\* 40 bits go from 2^40-1 to 0, and then it adds 1 to them; no step other than
\* that call and a Reset changes bits 40..63.
C12_HighBits ==
    /\ [][issued' # issued => N'[1] = HighBitsAfter(N)]_vars
    /\ [][N'[1] # N[1] => (issued' # issued \/ Installs' # Installs)]_vars

\* With no Reset, a call of Next has returned the value whose low 40 bits are
\* 0 and whose bits 40..63 are 1 above those at the start
C12_Witness ==
    /\ NoReset
    /\ \E k \in Returned64 :
          ret[k] = <<initial[1] + 1, 0, 0>> /\ initial[2] = 1048575

(***************************************************************************)
(* The distance between two renewals                                       *)
(***************************************************************************)
\* v + m * 2^33 on uint64, for m < 128
PlusWindows(v, m) ==
    LET mid == v[2] + m * 8192
    IN  <<(v[1] + mid \div 1048576) % 16777216, mid % 1048576, v[3]>>

\* v + 2^j on uint64, for j < 33 and v with its low 33 bits 0
PlusBit(v, j) ==
    IF j < 20 THEN <<v[1], v[2], v[3] + 2^j>> ELSE <<v[1], v[2] + 2^(j - 20), v[3]>>

\* The values on which the test of line 39 has just held: those of the
\* callers on their way to the mutex
DueNow == {x[c] : c \in {d \in Callers : pc[d] = "lock"}}

\* C13 as stated: RENEW_MASK is a 37-bit mask and the attempts come roughly 34
\* billion (2^35) calls apart: after a call that starts a renewal, none of the
\* calls 2^33, 2 * 2^33 and 3 * 2^33 later starts one.
C13_Original ==
    \A v \in DueNow :
        \A m \in 1..3 : ~RenewDue(PlusWindows(v, m))

\* The low 40 bits of v + 2^33 are still above those of v: the counter does
\* not run past 2^40 - 1 within the next 2^33 calls
SameRange(v) == v[2] + 8192 < 1048576

\* C13: RENEW_MASK + 1 is 2^33, and while the counter stays below 2^40 a call
\* that starts a renewal is followed by the next such call exactly 2^33 calls
\* later: the value 2^33 further starts one, and no value in between does,
\* whichever of the 33 low bits it has set.
C13_Throttle ==
    /\ Add64(RenewInterval, One64) = <<0, 8192, 0>>
    /\ \A v \in DueNow :
          /\ DueByClaim(v)
          /\ SameRange(v) =>
                /\ RenewDue(PlusWindows(v, 1))
                /\ \A j \in 0..32 : ~RenewDue(PlusBit(v, j))
                /\ ~RenewDue(Pred64(PlusWindows(v, 1)))

\* A renewal was started before the first state, at 103 * 2^33, and the call
\* that returned the value at 104 * 2^33 has started the next one
C13_Witness ==
    /\ NoReset
    /\ \E i \in Attempts : attempts[i].by = 0
    /\ \E k \in Returned64 :
          /\ ret[k][2] = 104 * 8192
          /\ ret[k][3] = 0
          /\ StartedBy(k) # {}

(***************************************************************************)
(* Renewal is tried again                                                  *)
(***************************************************************************)
\* C14: while Next keeps being called and no Reset has happened, whatever the
\* attempts so far did (failed or never ended) and wherever the counter stands
\* (past the 80% threshold or not), one more renewal goroutine is started in
\* the end: there is no state from which calls of Next go on for ever without
\* a further attempt.
C14_Retried ==
    \A n \in 0..(MaxAttempts - 1) :
        (NoReset /\ Len(attempts) = n) ~> (Len(attempts) > n)

\* The attempt started at 103 * 2^33 failed, the calls went on over a whole
\* window of 2^33, and the call that returned the value at 104 * 2^33 has
\* started the next attempt
C14_Witness ==
    /\ NoReset
    /\ hist # None
    /\ Len(attempts) = 2
    /\ \A i \in 1..(Len(attempts) - 1) : Failed(attempts[i])
    /\ attempts[Len(attempts)].pc = "spawned"
    /\ attempts[Len(attempts)].by > 0
    /\ \E k \in Returned64 : ret[k][2] = 104 * 8192 /\ ret[k][3] = 0

(***************************************************************************)
(* Next and a renewal that never ends                                      *)
(***************************************************************************)
\* A renewal goroutine has been started and its callback has not ended
Hanging == \E i \in Attempts : attempts[i].pc # "done"

\* Every value issued since the first state has the epoch field of the start
OldEpoch ==
    \A k \in 1..Len(issued) : EpochField(issued[k]) = InstalledAtStart

\* C15 as stated: while a renewal that was started never ends, every call of
\* Next returns the value before it plus 1, with the epoch installed before the
\* renewal was started in its epoch field.
C15_Original == Hanging => (Gapless /\ OldEpoch)

\* C15: a call of Next that started a renewal has returned its value, whatever
\* the goroutine did since; every call of Next returns, though no renewal
\* goroutine ever takes a step; and while a renewal never ends each call
\* returns the value before it plus 1, with the old epoch in its epoch field
\* as long as no call has carried out of the low 40 bits.
C15_NeverWaits ==
    /\ [](\A k \in 1..Len(issued) : StartedBy(k) # {} => k \in Returned64)
    /\ \A c \in Callers : (pc[c] # "idle") ~> (pc[c] = "idle")
    /\ [](Hanging =>
            /\ Gapless
            /\ \A k \in Returned64 : ret[k] = issued[k]
            /\ ~Carried => OldEpoch)

\* The call that started a renewal has returned and so has a later call,
\* while the goroutine has not taken a step
C15_Witness ==
    /\ ~Carried
    /\ \E i \in Attempts :
          /\ attempts[i].pc = "spawned"
          /\ attempts[i].by > 0
          /\ attempts[i].by \in Returned64
          /\ attempts[i].by + 1 \in Returned64
          /\ IsSucc(ret[attempts[i].by], ret[attempts[i].by + 1])

(***************************************************************************)
(* Overlapping renewals                                                    *)
(***************************************************************************)
\* Bits 40..63 of the value Reset(h<<40) stores for a validated epoch h
WrittenTop(h) ==
    IF Section = 0 THEN EpochOf(h) ELSE Section * 1048576 + EpochOf(h)

AllDone == \A i \in Attempts : attempts[i].pc = "done"

\* No call of Next since the first state has carried out of the low 40 bits
NoCarrySince == \A k \in 1..Len(issued) : issued[k][2] # 0 \/ issued[k][3] # 0

\* C16: nothing keeps two renewals from running at once, and each Reset
\* writes over whatever is there: the step of an attempt that calls Reset
\* makes it the latest install and leaves its epoch and the Section in bits
\* 40..63 with the counter at 0; once all attempts have ended, bits 40..63 are
\* those of the attempt that called Reset last, in whatever order the attempts
\* were started (no call of Next having carried into bit 40 since).
C16_LastWins ==
    /\ [][\A i \in Attempts :
            (attempts[i].ord = 0 /\ attempts'[i].ord # 0)
                => /\ attempts'[i].ord = Installs + 1
                   /\ N' = <<WrittenTop(attempts[i].h), 0, 0>>]_vars
    /\ []((AllDone /\ Installs > 0 /\ NoCarrySince)
            => \E i \in Attempts :
                  /\ attempts[i].ord = Installs
                  /\ N[1] = WrittenTop(attempts[i].h))

\* Two attempts ran at once: the one started first called Reset after the one
\* started second, and its epoch, the lower one, is in the value
C16_Witness ==
    /\ AllDone
    /\ \E i, j \in Attempts :
          /\ i < j
          /\ attempts[j].ord = 1
          /\ attempts[i].ord = 2
          /\ EpochOf(attempts[i].h) < EpochOf(attempts[j].h)
          /\ N[1] = WrittenTop(attempts[i].h)

(***************************************************************************)
(* The callback an attempt runs                                            *)
(***************************************************************************)
\* C17: the call of Next reads Renew while it holds the mutex and no
\* replacement is under way, keeps what it read until it starts the
\* goroutine, and the goroutine gets exactly that; the callback of an attempt
\* never changes afterwards, whatever is stored in Renew, and an attempt that
\* has called its callback does not call again; a nil callback ends in the
\* recovered panic.
C17_Snapshot ==
    /\ [][\A c \in Callers :
            (pc[c] = "read" /\ pc'[c] = "unlock")
                => renew'[c] = Renew /\ mu = c /\ spc = "idle"]_vars
    /\ [][\A c \in Callers :
            pc[c] \in {"unlock", "go"} => renew'[c] = renew[c]]_vars
    /\ [][Len(attempts') > Len(attempts)
            => /\ Len(attempts') = Len(attempts) + 1
               /\ \E c \in Callers :
                     /\ pc[c] = "go" /\ pc'[c] = "idle"
                     /\ attempts'[Len(attempts')].cb = renew[c]
                     /\ attempts'[Len(attempts')].by = tk[c]]_vars
    /\ [][\A i \in Attempts :
            /\ attempts'[i].cb = attempts[i].cb
            /\ attempts[i].pc # "spawned" => attempts'[i].pc # "spawned"]_vars
    /\ [](\A i \in Attempts :
            (attempts[i].pc = "done" /\ attempts[i].cb = "nil")
                => attempts[i].out = "panic")

\* Renew was replaced after the call of Next had read it: the attempt ran the
\* callback that was read and has ended, and Renew holds another one
C17_Witness ==
    /\ spc = "idle"
    /\ \E i \in Attempts :
          /\ attempts[i].by > 0
          /\ attempts[i].cb = "cbA"
          /\ attempts[i].pc = "done"
          /\ attempts[i].out = "returned"
          /\ Renew = "cbB"

(***************************************************************************)
(* The low 40 bits                                                         *)
(***************************************************************************)
\* The low 40 bits of v, and those bits plus 1 modulo 2^40
Low40(v) == <<v[2], v[3]>>
SuccLow40(v) ==
    IF v[3] < 1048575 THEN <<v[2], v[3] + 1>>
    ELSE IF v[2] < 1048575 THEN <<v[2] + 1, 0>>
    ELSE <<0, 0>>

\* C18: a call of Next adds 1 modulo 2^40 to the low 40 bits of the value, a
\* call of Reset(n) leaves the low 40 bits of n there, with a Section or
\* without, and no other step changes them.
C18_Low40 ==
    [][IF issued' # issued
       THEN Low40(N') = SuccLow40(N)
       ELSE IF lastCall' # lastCall /\ lastCall'[1] = "Reset"
            THEN Low40(N') = Low40(lastCall'[2])
            ELSE Low40(N') = Low40(N)]_vars

\* On a generator with a Section, Reset left low 40 bits of n that are all 1,
\* and the next call of Next returned a value whose low 40 bits are 0
C18_Witness ==
    /\ IsReset
    /\ Section \in 1..15
    /\ Low40(lastCall[2]) = <<1048575, 1048575>>
    /\ Len(ret) > 0
    /\ ret[1] # None
    /\ Low40(ret[1]) = <<0, 0>>

(***************************************************************************)
(* The Section in the value                                                *)
(***************************************************************************)
\* Every value issued since the first state has the Section in its 4 highest
\* bits, and so has the value of the generator
ShardInTop ==
    /\ Top4(N) = Section
    /\ \A k \in 1..Len(issued) : Top4(issued[k]) = Section

\* C19 as stated: on a generator with a Section s, from the first Reset on,
\* every value Next returns has s in its 4 highest bits, also when renewals
\* keep failing and the counter and the epoch field run over.
C19_Original == (Section \in 1..15 /\ Installed) => ShardInTop

\* Some call of Next carried out of the low 60 bits (the counter and the
\* epoch field of a generator with a Section), before the first state or since
Overrun ==
    \/ hist # None /\ Top4(hist[1]) # Top4(hist[2])
    \/ \E k \in 1..Len(issued) :
          issued[k][1] % 1048576 = 0 /\ issued[k][2] = 0 /\ issued[k][3] = 0

\* C19: no step changes Section once the generator is built; on a generator
\* with a Section s, from the first Reset on, every value Next returns has s
\* in its 4 highest bits, through failed renewals, installs and carries of
\* the counter into the epoch field, as long as no call of Next has carried
\* out of the epoch field into the 4 highest bits.
C19_ShardStable ==
    /\ [][life = "built" => Section' = Section]_vars
    /\ []((Section \in 1..15 /\ Installed /\ ~Overrun) => ShardInTop)

\* On a generator with Section 5 the counter has carried into the epoch field,
\* the renewal started since has failed, and Next returned a value after that
C19_Witness ==
    /\ Section = 5
    /\ Carried
    /\ ~Overrun
    /\ \E i \in Attempts :
          /\ Failed(attempts[i])
          /\ attempts[i].by > 0
          /\ \E k \in Returned64 :
                k > attempts[i].by /\ ret[k] = N /\ Top4(ret[k]) = 5

(***************************************************************************)
(* What a renewal writes to the Logger                                     *)
(***************************************************************************)
\* The diagnostics of an attempt that has ended, by the claim
LogByClaim(a) ==
    IF ~Logger THEN <<>>
    ELSE IF a.out = "panic" THEN <<"warn">>
    ELSE IF a.err # "nil" THEN <<"warn">>
    ELSE <<"info">>

\* C20: an attempt that has ended has made exactly one call to the Logger
\* when there is one, Info after renew returned nil, Warn after it returned an
\* error, Warn after it panicked, and none without a Logger; an attempt that
\* has not ended has made none; and the step in which an attempt ends, with a
\* Logger or without, leaves the generator in use and changes nothing of the
\* callers of Next.
C20_Diagnostics ==
    /\ [](\A i \in Attempts :
            attempts[i].log =
                IF attempts[i].pc = "done" THEN LogByClaim(attempts[i]) ELSE <<>>)
    /\ [][\A i \in Attempts :
            (attempts[i].pc # "done" /\ attempts'[i].pc = "done")
                => /\ life' = "built"
                   /\ <<pc, x, issued, ret>>' = <<pc, x, issued, ret>>]_vars

\* With a Logger, one attempt ended in a panic and wrote Warn, another
\* returned nil and wrote Info
C20_Witness ==
    /\ Logger
    /\ \E i, j \in Attempts :
          /\ attempts[i].out = "panic" /\ attempts[i].log = <<"warn">>
          /\ attempts[j].out = "returned" /\ attempts[j].err = "nil"
          /\ attempts[j].log = <<"info">>

====
